---- MODULE Spec2Model ----
(***************************************************************************)
(* Model of the query-translation-and-execution pipeline of the            *)
(* e-commerce AI agent: src/llm_helper.py (LLMHelper) and src/main.py      *)
(* (the FastAPI handlers).                                                 *)
(*                                                                         *)
(* Text is modelled as a sequence of one-character strings, so that        *)
(* startswith / endswith / strip / split / re.sub act on characters as     *)
(* they do in Python.                                                      *)
(***************************************************************************)
EXTENDS Integers, Sequences, FiniteSets, TLC

VARIABLES
    modelOk,    \* LLMHelper.model is set (not None)
    backend,    \* what model.generate_content does when called: text or raise
    phase,      \* "raw", then "clean", "reclean", "generated" or "formatted"
    out,        \* _clean_sql_response(backend.text)
    out2,       \* _clean_sql_response(out)
    ret,        \* what generate_sql_query / format_response handed its caller
    chartIn,    \* visualize_data: the chart_type hint and the data frame
    chartOut,   \* visualize_data: chart_type after lines 160-166
    mode,       \* per request: the endpoint it was sent to
    pc,         \* per request: "idle", a suspension point of the stream, "done"
    log,        \* per request: the collaborator calls made so far, in order
    resp,       \* per request: the HTTP response
    chunks,     \* per request: the chunks the stream generator has yielded
    frame,      \* per request: the locals of the suspended stream generator
    sessions    \* the requests holding a store session that is not closed

helperVars == <<modelOk, backend, phase, out, out2, ret>>
chartVars == <<chartIn, chartOut>>
requestVars == <<mode, pc, log, resp, chunks, frame, sessions>>
vars == <<modelOk, backend, phase, out, out2, ret, chartIn, chartOut,
          mode, pc, log, resp, chunks, frame, sessions>>

----------------------------------------------------------------------------
(* Bounds *)

\* longest free-form body placed between the optional fences of a raw text
MaxBody == 3

----------------------------------------------------------------------------
(* Python string primitives *)

\* str.isspace() for the characters of the model (str.strip / str.split)
IsSpace(c) == c \in {" ", "\n", "\t"}

StartsWith(s, p) == Len(s) >= Len(p) /\ SubSeq(s, 1, Len(p)) = p

EndsWith(s, p) == Len(s) >= Len(p) /\ SubSeq(s, Len(s) - Len(p) + 1, Len(s)) = p

\* Python s[lo:hi] with 0 <= lo and hi possibly below lo (then empty)
Slice(s, lo, hi) ==
    LET h == IF hi > Len(s) THEN Len(s) ELSE hi
    IN  IF h <= lo THEN <<>> ELSE SubSeq(s, lo + 1, h)

RECURSIVE LStrip(_)
LStrip(s) ==
    IF s = <<>> THEN <<>>
    ELSE IF IsSpace(Head(s)) THEN LStrip(Tail(s))
    ELSE s

RECURSIVE RStrip(_)
RStrip(s) ==
    IF s = <<>> THEN <<>>
    ELSE IF IsSpace(s[Len(s)]) THEN RStrip(SubSeq(s, 1, Len(s) - 1))
    ELSE s

\* str.strip()
Strip(s) == RStrip(LStrip(s))

\* str.split() with no argument: the maximal runs of non-whitespace
RECURSIVE SplitFrom(_, _)
SplitFrom(s, word) ==
    IF s = <<>> THEN (IF word = <<>> THEN <<>> ELSE <<word>>)
    ELSE IF IsSpace(Head(s))
         THEN (IF word = <<>> THEN <<>> ELSE <<word>>) \o SplitFrom(Tail(s), <<>>)
         ELSE SplitFrom(Tail(s), Append(word, Head(s)))

Split(s) == SplitFrom(s, <<>>)

\* ' '.join(words)
RECURSIVE JoinSpace(_)
JoinSpace(words) ==
    IF words = <<>> THEN <<>>
    ELSE IF Len(words) = 1 THEN words[1]
    ELSE words[1] \o <<" ">> \o JoinSpace(Tail(words))

\* re.sub(r'--.*$', '', s, flags=re.MULTILINE): on every line, the text from
\* the leftmost "--" up to (not including) the newline is removed
RECURSIVE SubLineComments(_, _)
SubLineComments(s, inComment) ==
    IF s = <<>> THEN <<>>
    ELSE IF Head(s) = "\n" THEN <<"\n">> \o SubLineComments(Tail(s), FALSE)
    ELSE IF inComment THEN SubLineComments(Tail(s), TRUE)
    ELSE IF Len(s) >= 2 /\ s[1] = "-" /\ s[2] = "-" THEN SubLineComments(Tail(s), TRUE)
    ELSE <<Head(s)>> \o SubLineComments(Tail(s), FALSE)

\* s contains p as a substring
Contains(s, p) ==
    \E i \in 1..(Len(s) - Len(p) + 1) : SubSeq(s, i, i + Len(p) - 1) = p

----------------------------------------------------------------------------
(* LLMHelper._clean_sql_response *)

\* The backquote character U+0060; it is written "BQ" in the model because the
\* character itself cannot appear inside a TLA+ string
Backtick == "BQ"

Fence == <<Backtick, Backtick, Backtick>>
FenceSql == <<Backtick, Backtick, Backtick, "s", "q", "l">>
Semicolon == <<";">>

\* lines 82-85: the fenced-code markers are removed only when the text starts
\* with the opening marker AND ends with the closing one
StripFences(sql) ==
    IF StartsWith(sql, FenceSql) /\ EndsWith(sql, Fence)
    THEN Strip(Slice(sql, 6, Len(sql) - 3))
    ELSE IF StartsWith(sql, Fence) /\ EndsWith(sql, Fence)
    THEN Strip(Slice(sql, 3, Len(sql) - 3))
    ELSE sql

\* line 88
RemoveLineComments(sql) == SubLineComments(sql, FALSE)

\* a variant that keeps the whitespace of the text as it is
CollapseWhitespaceKept(sql) == sql

\* line 91
CollapseWhitespace(sql) == JoinSpace(Split(sql))

\* a variant that appends the terminator without testing for it
EnsureSemicolonAlways(sql) == sql \o Semicolon

\* lines 94-95
EnsureSemicolon(sql) == IF ~EndsWith(sql, Semicolon) THEN sql \o Semicolon ELSE sql

CleanSqlResponse(sql) ==
    Strip(EnsureSemicolon(CollapseWhitespace(RemoveLineComments(StripFences(sql)))))

----------------------------------------------------------------------------
(* LLMHelper.generate_sql_query and LLMHelper.format_response *)

ErrorPrefix == <<"E", "r", "r", "o", "r">>
GenErrorPrefix ==
    <<"E", "r", "r", "o", "r", " ", "g", "e", "n", "e", "r", "a", "t", "i", "n", "g",
      " ", "S", "Q", "L", ":", " ">>
FormatErrorPrefix ==
    <<"E", "r", "r", "o", "r", " ", "f", "o", "r", "m", "a", "t", "t", "i", "n", "g",
      " ", "r", "e", "s", "p", "o", "n", "s", "e", ":", " ">>
ModelNotInitialized ==
    <<"M", "o", "d", "e", "l", " ", "n", "o", "t", " ", "i", "n", "i", "t", "i", "a",
      "l", "i", "z", "e", "d">>
EmptyResponse ==
    <<"E", "m", "p", "t", "y", " ", "r", "e", "s", "p", "o", "n", "s", "e", " ", "f",
      "r", "o", "m", " ", "m", "o", "d", "e", "l">>
BackendBoom == <<"b", "o", "o", "m">>

\* the result of running a block of Python: a value, or a raised exception
\* carrying str(e)
Returned(v) == [raised |-> FALSE, value |-> v]
Raised(msg) == [raised |-> TRUE, value |-> msg]

\* what the backend does when generate_content is called
BackendText(t) == [kind |-> "text", text |-> t]
BackendRaises(msg) == [kind |-> "raise", text |-> msg]

\* lines 125-148: the body of the try block of generate_sql_query
GenerateSqlTry(model, reply) ==
    IF ~model THEN Raised(ModelNotInitialized)
    ELSE IF reply.kind = "raise" THEN Raised(reply.text)
    ELSE IF reply.text = <<>> THEN Raised(EmptyResponse)
    ELSE Returned(CleanSqlResponse(reply.text))

\* a variant without the except clause: the exception reaches the caller
GenerateSqlUncaught(model, reply) == GenerateSqlTry(model, reply)

\* lines 150-153: except Exception turns the exception into the error marker
GenerateSqlQuery(model, reply) ==
    LET r == GenerateSqlTry(model, reply)
    IN  IF r.raised THEN Returned(GenErrorPrefix \o r.value) ELSE r

\* lines 180-195: the body of the try block of format_response
FormatResponseTry(model, reply) ==
    IF ~model THEN Raised(ModelNotInitialized)
    ELSE IF reply.kind = "raise" THEN Raised(reply.text)
    ELSE IF reply.text = <<>> THEN Raised(EmptyResponse)
    ELSE Returned(Strip(reply.text))

\* lines 197-200
FormatResponse(model, reply) ==
    LET r == FormatResponseTry(model, reply)
    IN  IF r.raised THEN Returned(FormatErrorPrefix \o r.value) ELSE r

\* before any call of the helper
NoText == <<>>
NoReturn == [raised |-> FALSE, value |-> <<"?">>]

\* main.py tests every helper result with startswith("Error")
IsErrorMarker(s) == StartsWith(s, ErrorPrefix)

----------------------------------------------------------------------------
(* main.py: values shared by the handlers *)

ErrorColon == <<"E", "r", "r", "o", "r", ":", " ">>
ErrorProcessing ==
    <<"E", "r", "r", "o", "r", " ", "p", "r", "o", "c", "e", "s", "s", "i", "n", "g",
      " ", "r", "e", "q", "u", "e", "s", "t", ":", " ">>
GeneratedSqlLabel ==
    <<"G", "e", "n", "e", "r", "a", "t", "e", "d", " ", "S", "Q", "L", ":", " ">>
NoSuchTable == <<"n", "o", " ", "s", "u", "c", "h", " ", "t", "a", "b", "l", "e">>
RenderFault == <<"r", "e", "n", "d", "e", "r">>

\* the rows of a result set, as far as the handlers look at them: how many
\* there are and whether their mappings have a key named date
NoRows == [n |-> 0, date |-> FALSE]

\* what session.execute does when called: rows, or a store-level error
StoreReturns(rows) == [kind |-> "rows", rows |-> rows, msg |-> <<>>]
StoreRaises(msg) == [kind |-> "raise", rows |-> NoRows, msg |-> msg]

\* one collaborator call: ok is what the handler sees (for generate and format:
\* the text is no error marker; for execute and render: no exception), failed
\* says that the collaborator itself failed, value is the text it returned
Call(op, ok, failed, value) == [op |-> op, ok |-> ok, failed |-> failed, value |-> value]

\* the backend gave the helper nothing to return
BackendFailed(b) == b.kind = "raise" \/ b.text = <<>>

\* llm_helper is built when main.py is imported (line 30) and LLMHelper()
\* raises unless the model was set, so the handlers always see it set
GenerateCall(g) ==
    LET v == GenerateSqlQuery(TRUE, g).value
    IN  Call("generate", ~IsErrorMarker(v), BackendFailed(g), v)

\* a variant whose test for the marker never finds it
FormatCallUnchecked(f) ==
    LET v == FormatResponse(TRUE, f).value
    IN  Call("format", TRUE, BackendFailed(f), v)

FormatCall(f) ==
    LET v == FormatResponse(TRUE, f).value
    IN  Call("format", ~IsErrorMarker(v), BackendFailed(f), v)

\* a variant whose block swallows the error of execute and goes on with no rows
ExecuteScopedSwallow(s) ==
    [raised |-> FALSE, rows |-> s.rows, msg |-> s.msg, open |-> FALSE,
     log |-> << Call("open", TRUE, FALSE, <<>>),
                Call("execute", s.kind = "rows", s.kind = "raise", s.msg),
                Call("close", TRUE, FALSE, <<>>) >>]

\* a variant without the finally: an error of execute leaves before close
ExecuteScopedNoFinally(s) ==
    [raised |-> s.kind = "raise", rows |-> s.rows, msg |-> s.msg,
     open |-> s.kind = "raise",
     log |-> << Call("open", TRUE, FALSE, <<>>),
                Call("execute", s.kind = "rows", s.kind = "raise", s.msg) >>
             \o (IF s.kind = "raise" THEN <<>> ELSE <<Call("close", TRUE, FALSE, <<>>)>>)]

\* session = get_session(engine); try: execute, rows; finally: session.close()
\* open: the session is still open when the block is left
ExecuteScoped(s) ==
    [raised |-> s.kind = "raise", rows |-> s.rows, msg |-> s.msg, open |-> FALSE,
     log |-> << Call("open", TRUE, FALSE, <<>>),
                Call("execute", s.kind = "rows", s.kind = "raise", s.msg),
                Call("close", TRUE, FALSE, <<>>) >>]

\* session = get_session(engine); execute; rows; session.close(), with no
\* finally: an exception of execute leaves before close
ExecuteUnscoped(s) ==
    IF s.kind = "raise"
    THEN [raised |-> TRUE, rows |-> s.rows, msg |-> s.msg, open |-> TRUE,
          log |-> << Call("open", TRUE, FALSE, <<>>),
                     Call("execute", FALSE, TRUE, s.msg) >>]
    ELSE [raised |-> FALSE, rows |-> s.rows, msg |-> s.msg, open |-> FALSE,
          log |-> << Call("open", TRUE, FALSE, <<>>),
                     Call("execute", TRUE, FALSE, <<>>),
                     Call("close", TRUE, FALSE, <<>>) >>]

\* how a handler leaves: exc is "none" (it returned), "http" (it raised
\* HTTPException(status, detail = text)) or "exception" (anything else, with
\* str(e) = text); kind names the body it returned
Returns == [exc |-> "none", status |-> 200, kind |-> "none", text |-> <<>>,
            sql |-> <<>>, answer |-> <<>>, rows |-> NoRows, chart |-> "",
            log |-> <<>>, open |-> FALSE]

\* str(HTTPException(status, detail)): "<status>: <detail>"
StatusDigits(status) ==
    IF status = 400 THEN <<"4", "0", "0">>
    ELSE IF status = 500 THEN <<"5", "0", "0">>
    ELSE <<"2", "0", "0">>

HttpExceptionStr(status, detail) == StatusDigits(status) \o <<":", " ">> \o detail

----------------------------------------------------------------------------
(* main.py: answer_question, GET /query *)

\* lines 71-94: the body of the try block
AnswerQuestionTry(g, s, f) ==
    LET gc == GenerateCall(g)
    IN  IF ~gc.ok
        THEN [Returns EXCEPT !.exc = "http", !.status = 400, !.text = gc.value,
                             !.log = <<gc>>]
        ELSE
        LET ex == ExecuteScoped(s)
        IN  IF ex.raised
            THEN [Returns EXCEPT !.exc = "exception", !.text = ex.msg,
                                 !.log = <<gc>> \o ex.log, !.open = ex.open]
            ELSE
            LET fc == FormatCall(f)
                lg == <<gc>> \o ex.log \o <<fc>>
            IN  IF ~fc.ok
                THEN [Returns EXCEPT !.exc = "http", !.status = 400, !.text = fc.value,
                                     !.log = lg, !.open = ex.open]
                ELSE [Returns EXCEPT !.kind = "json", !.sql = gc.value,
                                     !.answer = fc.value, !.rows = ex.rows,
                                     !.log = lg, !.open = ex.open]

\* a variant whose only handler is `except Exception`, as in visualize_data
AnswerQuestionNoReraise(g, s, f) ==
    LET t == AnswerQuestionTry(g, s, f)
    IN  IF t.exc = "http"
        THEN [t EXCEPT !.status = 500, !.text = HttpExceptionStr(t.status, t.text)]
        ELSE IF t.exc = "exception" THEN [t EXCEPT !.exc = "http", !.status = 500]
        ELSE t

\* lines 96-99: HTTPException is re-raised, anything else becomes a 500 whose
\* detail is str(e)
AnswerQuestion(g, s, f) ==
    LET t == AnswerQuestionTry(g, s, f)
    IN  IF t.exc = "http" THEN t
        ELSE IF t.exc = "exception" THEN [t EXCEPT !.exc = "http", !.status = 500]
        ELSE t

----------------------------------------------------------------------------
(* main.py: visualize_data, GET /query/visualize *)

\* the chart_type parameter: absent (None), empty, one of the documented
\* values, or some other text
NoHint == "None"
Hints == {NoHint, "", "line", "bar", "pie", "histogram", "scatter"}

\* `not chart_type`
Falsy(hint) == hint = NoHint \/ hint = ""

\* 'date' in df.columns: a frame built from no rows has no columns
HasDateColumn(df) == df.n > 0 /\ df.date

\* a variant with the first threshold off by one
SelectChartTypeOffByOne(hint, df) ==
    IF Falsy(hint)
    THEN IF HasDateColumn(df) /\ df.n >= 3 THEN "line"
         ELSE IF df.n <= 10 THEN "bar"
         ELSE "histogram"
    ELSE hint

\* lines 160-166
SelectChartType(hint, df) ==
    IF Falsy(hint)
    THEN IF HasDateColumn(df) /\ df.n > 3 THEN "line"
         ELSE IF df.n <= 10 THEN "bar"
         ELSE "histogram"
    ELSE hint

\* lines 169-196: the renderer is a black box that may raise; without a date
\* column it reads df.columns[0], which raises on a frame with no columns
RenderRaises(df, renderOk) == ~renderOk \/ (~HasDateColumn(df) /\ df.n = 0)

\* lines 142-198: the body of the try block
VisualizeDataTry(g, s, hint, renderOk) ==
    LET gc == GenerateCall(g)
    IN  IF ~gc.ok
        THEN [Returns EXCEPT !.exc = "http", !.status = 400, !.text = gc.value,
                             !.log = <<gc>>]
        ELSE
        LET ex == ExecuteScoped(s)
        IN  IF ex.raised
            THEN [Returns EXCEPT !.exc = "exception", !.text = ex.msg,
                                 !.log = <<gc>> \o ex.log, !.open = ex.open]
            ELSE
            LET chart == SelectChartType(hint, ex.rows)
                rc == Call("render", ~RenderRaises(ex.rows, renderOk),
                           RenderRaises(ex.rows, renderOk), <<>>)
                lg == <<gc>> \o ex.log \o <<rc>>
            IN  IF ~rc.ok
                THEN [Returns EXCEPT !.exc = "exception", !.text = RenderFault,
                                     !.chart = chart, !.log = lg, !.open = ex.open]
                ELSE [Returns EXCEPT !.kind = "png", !.chart = chart, !.rows = ex.rows,
                                     !.log = lg, !.open = ex.open]

\* a variant that re-raises HTTPException first, as answer_question does
VisualizeDataReraise(g, s, hint, renderOk) ==
    LET t == VisualizeDataTry(g, s, hint, renderOk)
    IN  IF t.exc = "http" THEN t
        ELSE IF t.exc = "exception" THEN [t EXCEPT !.exc = "http", !.status = 500]
        ELSE t

\* lines 200-201: every exception, HTTPException included, becomes a 500
\* whose detail is str(e)
VisualizeData(g, s, hint, renderOk) ==
    LET t == VisualizeDataTry(g, s, hint, renderOk)
    IN  IF t.exc = "http"
        THEN [t EXCEPT !.status = 500, !.text = HttpExceptionStr(t.status, t.text)]
        ELSE IF t.exc = "exception" THEN [t EXCEPT !.exc = "http", !.status = 500]
        ELSE t

----------------------------------------------------------------------------
(* main.py: clean_answer, GET /query/clean *)

\* lines 220-233: the body of the try block
CleanAnswerTry(g, s, f) ==
    LET gc == GenerateCall(g)
    IN  IF ~gc.ok
        THEN [Returns EXCEPT !.kind = "error_text", !.text = ErrorColon \o gc.value,
                             !.log = <<gc>>]
        ELSE
        LET ex == ExecuteUnscoped(s)
        IN  IF ex.raised
            THEN [Returns EXCEPT !.exc = "exception", !.text = ex.msg,
                                 !.log = <<gc>> \o ex.log, !.open = ex.open]
            ELSE
            LET fc == FormatCall(f)
            IN  [Returns EXCEPT !.kind = "text", !.text = fc.value,
                                !.log = <<gc>> \o ex.log \o <<fc>>, !.open = ex.open]

\* lines 235-236
CleanAnswer(g, s, f) ==
    LET t == CleanAnswerTry(g, s, f)
    IN  IF t.exc = "exception"
        THEN [t EXCEPT !.exc = "none", !.kind = "error_text",
                       !.text = ErrorProcessing \o t.text]
        ELSE t

----------------------------------------------------------------------------
(* main.py: html_answer, GET /query/html *)

\* lines 241-258: answer_question is awaited; its HTTPException is caught by
\* `except Exception` and put into an HTML fragment, with status 200
HtmlAnswer(g, s, f) ==
    LET t == AnswerQuestion(g, s, f)
    IN  IF t.exc = "http"
        THEN [t EXCEPT !.exc = "none", !.status = 200, !.kind = "error_html",
                       !.text = ErrorColon \o HttpExceptionStr(t.status, t.text)]
        ELSE [t EXCEPT !.kind = "html"]

\* what FastAPI sends for a handler result: the returned body with status 200,
\* or the status and detail of the HTTPException
ResponseOf(t) ==
    IF t.exc = "http"
    THEN [status |-> t.status, kind |-> "error", text |-> t.text, sql |-> <<>>,
          answer |-> <<>>, rows |-> NoRows, chart |-> ""]
    ELSE [status |-> 200, kind |-> t.kind, text |-> t.text, sql |-> t.sql,
          answer |-> t.answer, rows |-> t.rows, chart |-> t.chart]

NoResponse == [status |-> 0, kind |-> "none", text |-> <<>>, sql |-> <<>>,
               answer |-> <<>>, rows |-> NoRows, chart |-> ""]

----------------------------------------------------------------------------
(* main.py: answer_question_stream.generate, GET /query/stream *)

Newline == <<"\n">>

\* one yielded chunk; kind names the yield statement: "error" (lines 109, 125,
\* 134), "sql" (line 112) or "token" (line 129)
Chunk(kind, text) == [kind |-> kind, text |-> text]

\* the locals of the generator that outlive a yield
NoFrame == [sql |-> <<>>, formatted |-> <<>>, todo |-> <<>>, cancelled |-> FALSE]

\* a variant that loses the first word
AnswerWordsSkipFirst(formatted) ==
    IF Split(formatted) = <<>> THEN <<>> ELSE Tail(Split(formatted))

\* line 128: formatted_response.split()
AnswerWords(formatted) == Split(formatted)

\* the result of resuming the generator: the chunk it yields (if any), the
\* suspension point it stops at, its locals, the calls it made, and whether a
\* session is open while it is suspended
Step(at, yielded, fr, lg, open) ==
    [pc |-> at, yielded |-> yielded, frame |-> fr, log |-> lg, open |-> open]

\* lines 105-112: from the start to the first yield
GenerateFirst(g) ==
    LET gc == GenerateCall(g)
    IN  IF ~gc.ok
        THEN Step("err_sent", <<Chunk("error", ErrorColon \o gc.value \o Newline)>>,
                  NoFrame, <<gc>>, FALSE)
        ELSE Step("sql_sent",
                  <<Chunk("sql", GeneratedSqlLabel \o gc.value \o Newline \o Newline)>>,
                  [NoFrame EXCEPT !.sql = gc.value], <<gc>>, FALSE)

\* lines 114-129 and 133-134: from the yield of the SQL line to the next yield
\* or to the end of the generator
GenerateBody(fr, s, f) ==
    LET ex == ExecuteScoped(s)
    IN  IF ex.raised
        THEN Step("err_sent", <<Chunk("error", ErrorColon \o ex.msg \o Newline)>>,
                  fr, ex.log, ex.open)
        ELSE
        LET fc == FormatCall(f)
            words == AnswerWords(fc.value)
            fr2 == [fr EXCEPT !.formatted = fc.value]
        IN  IF ~fc.ok
            THEN Step("err_sent", <<Chunk("error", ErrorColon \o fc.value \o Newline)>>,
                      fr2, ex.log \o <<fc>>, ex.open)
            ELSE IF words = <<>>
            THEN Step("done", <<>>, fr2, ex.log \o <<fc>>, ex.open)
            ELSE Step("streaming", <<Chunk("token", Head(words) \o <<" ">>)>>,
                      [fr2 EXCEPT !.todo = Tail(words)], ex.log \o <<fc>>, ex.open)

\* lines 128-131: the next turn of the for loop
GenerateWord(fr) ==
    IF fr.todo = <<>>
    THEN Step("done", <<>>, fr, <<>>, FALSE)
    ELSE Step("streaming", <<Chunk("token", Head(fr.todo) \o <<" ">>)>>,
              [fr EXCEPT !.todo = Tail(fr.todo)], <<>>, FALSE)

\* a variant without the `return` after the error chunk of line 125: the
\* generator goes on into the for loop over the words of formatted_response
GenerateAfterErrorFallsThrough(fr) ==
    GenerateWord([fr EXCEPT !.todo = AnswerWords(fr.formatted)])

\* lines 110 and 126, and the end of the except block after line 134: resumed
\* after an error chunk, the generator returns
GenerateAfterError(fr) == Step("done", <<>>, fr, <<>>, FALSE)

----------------------------------------------------------------------------
(* Bounds and input sets of the request model *)

\* longest raw answer text of the formatter backend
MaxAnswer == 3

\* largest row count of a data frame handed to chart selection
MaxChartRows == 11

Requests == {"r1", "r2"}

\* what the backend answers to the SQL prompt: a statement, a fenced
\* statement, nothing, an exception, or a text that itself begins with Error
GenOutcomes ==
    {BackendText(<<"S">>), BackendText(Fence \o <<"S">> \o Fence), BackendText(<<>>),
     BackendRaises(BackendBoom), BackendText(ErrorPrefix)}

StoreRowSets == {NoRows, [n |-> 5, date |-> TRUE]}

StoreOutcomes == {StoreReturns(rows) : rows \in StoreRowSets} \cup {StoreRaises(NoSuchTable)}

AnswerAlphabet == {"a", " ", "\n"}

AnswerTexts == UNION {[1..n -> AnswerAlphabet] : n \in 0..MaxAnswer}

\* what the backend answers to the formatting prompt
FmtOutcomes ==
    {BackendText(t) : t \in AnswerTexts} \cup
    {BackendRaises(BackendBoom), BackendText(ErrorPrefix)}

DataFrames == [n : 0..MaxChartRows, date : BOOLEAN]

ChartIdle == [hint |-> NoHint, df |-> NoRows]

HelperIdle ==
    /\ modelOk = TRUE
    /\ backend = BackendText(<<"a">>)
    /\ phase = "idle"
    /\ out = NoText
    /\ out2 = NoText
    /\ ret = NoReturn

ChartVarsIdle ==
    /\ chartIn = ChartIdle
    /\ chartOut = "idle"

RequestsIdle ==
    /\ mode = [r \in Requests |-> "none"]
    /\ pc = [r \in Requests |-> "idle"]
    /\ log = [r \in Requests |-> <<>>]
    /\ resp = [r \in Requests |-> NoResponse]
    /\ chunks = [r \in Requests |-> <<>>]
    /\ frame = [r \in Requests |-> NoFrame]
    /\ sessions = {}

----------------------------------------------------------------------------
(* The helper on its own: raw model texts in, helper results out *)

Alphabet == {Backtick, "-", " ", "\n", ";", "a"}

Bodies == UNION {[1..n -> Alphabet] : n \in 0..MaxBody}

\* what may precede and follow the body: nothing, a fence, a fence with the
\* language tag, and the same with whitespace outside the fence
Prefixes == {<<>>, Fence, FenceSql, <<" ">> \o FenceSql}
Suffixes == {<<>>, Fence, Fence \o <<"\n">>}

RawTexts == {p \o b \o s : p \in Prefixes, b \in Bodies, s \in Suffixes}


\* LLMHelper() raises unless the model was set, so a helper normally has it;
\* the unset model is the state the guards at lines 125 and 180 test for
InitHelper ==
    /\ \/ /\ modelOk = TRUE
          /\ backend \in {BackendText(t) : t \in RawTexts} \cup {BackendRaises(BackendBoom)}
       \/ /\ modelOk = FALSE
          /\ backend = BackendText(<<"a">>)
    /\ phase = "raw"
    /\ out = NoText
    /\ out2 = NoText
    /\ ret = NoReturn
    /\ ChartVarsIdle
    /\ RequestsIdle

\* _clean_sql_response applied to the raw model text
Sanitize ==
    /\ phase = "raw"
    /\ backend.kind = "text"
    /\ out' = CleanSqlResponse(backend.text)
    /\ phase' = "clean"
    /\ UNCHANGED <<modelOk, backend, out2, ret, chartVars, requestVars>>

\* _clean_sql_response applied to its own output
Resanitize ==
    /\ phase = "clean"
    /\ out2' = CleanSqlResponse(out)
    /\ phase' = "reclean"
    /\ UNCHANGED <<modelOk, backend, out, ret, chartVars, requestVars>>

Generate ==
    /\ phase = "raw"
    /\ ret' = GenerateSqlQuery(modelOk, backend)
    /\ phase' = "generated"
    /\ UNCHANGED <<modelOk, backend, out, out2, chartVars, requestVars>>

Format ==
    /\ phase = "raw"
    /\ ret' = FormatResponse(modelOk, backend)
    /\ phase' = "formatted"
    /\ UNCHANGED <<modelOk, backend, out, out2, chartVars, requestVars>>

NextHelper == Sanitize \/ Resanitize \/ Generate \/ Format

SpecHelper == InitHelper /\ [][NextHelper]_vars

----------------------------------------------------------------------------
(* Chart-type selection on its own: hints and data frames in, chart type out *)

InitChart ==
    /\ chartIn \in [hint : Hints, df : DataFrames]
    /\ chartOut = "pending"
    /\ HelperIdle
    /\ RequestsIdle

ChooseChart ==
    /\ chartOut = "pending"
    /\ chartOut' = SelectChartType(chartIn.hint, chartIn.df)
    /\ UNCHANGED <<chartIn, helperVars, requestVars>>

NextChart == ChooseChart

SpecChart == InitChart /\ [][NextChart]_vars

----------------------------------------------------------------------------
(* The requests.  The handlers are `async def` without an await, so each runs *)
(* to its end on the event loop before anything else does; the stream        *)
(* generator is resumed once per chunk and may be interleaved with anything. *)

Init ==
    /\ HelperIdle
    /\ ChartVarsIdle
    /\ RequestsIdle

\* a handler has run for request r and left with t
Served(r, m, t) ==
    /\ mode' = [mode EXCEPT ![r] = m]
    /\ pc' = [pc EXCEPT ![r] = "done"]
    /\ log' = [log EXCEPT ![r] = t.log]
    /\ resp' = [resp EXCEPT ![r] = ResponseOf(t)]
    /\ sessions' = IF t.open THEN sessions \cup {r} ELSE sessions
    /\ UNCHANGED <<chunks, frame, helperVars, chartVars>>

Query(r) ==
    /\ pc[r] = "idle"
    /\ \E g \in GenOutcomes, s \in StoreOutcomes, f \in FmtOutcomes :
          Served(r, "query", AnswerQuestion(g, s, f))

Visualize(r) ==
    /\ pc[r] = "idle"
    /\ \E g \in GenOutcomes, s \in StoreOutcomes, h \in Hints, renderOk \in BOOLEAN :
          Served(r, "visualize", VisualizeData(g, s, h, renderOk))

Clean(r) ==
    /\ pc[r] = "idle"
    /\ \E g \in GenOutcomes, s \in StoreOutcomes, f \in FmtOutcomes :
          Served(r, "clean", CleanAnswer(g, s, f))

Html(r) ==
    /\ pc[r] = "idle"
    /\ \E g \in GenOutcomes, s \in StoreOutcomes, f \in FmtOutcomes :
          Served(r, "html", HtmlAnswer(g, s, f))

\* line 136: the handler returns the StreamingResponse around a generator that
\* has not run yet
Stream(r) ==
    /\ pc[r] = "idle"
    /\ mode' = [mode EXCEPT ![r] = "stream"]
    /\ pc' = [pc EXCEPT ![r] = "start"]
    /\ resp' = [resp EXCEPT ![r] = [NoResponse EXCEPT !.status = 200, !.kind = "stream"]]
    /\ UNCHANGED <<log, chunks, frame, sessions, helperVars, chartVars>>

\* the generator of request r was resumed and ran to st
Resumed(r, st) ==
    /\ pc' = [pc EXCEPT ![r] = st.pc]
    /\ chunks' = [chunks EXCEPT ![r] = @ \o st.yielded]
    /\ frame' = [frame EXCEPT ![r] = st.frame]
    /\ log' = [log EXCEPT ![r] = @ \o st.log]
    /\ sessions' = IF st.open THEN sessions \cup {r} ELSE sessions
    /\ UNCHANGED <<mode, resp, helperVars, chartVars>>

StreamFirst(r) ==
    /\ pc[r] = "start"
    /\ \E g \in GenOutcomes : Resumed(r, GenerateFirst(g))

StreamBody(r) ==
    /\ pc[r] = "sql_sent"
    /\ \E s \in StoreOutcomes, f \in FmtOutcomes : Resumed(r, GenerateBody(frame[r], s, f))

StreamWord(r) ==
    /\ pc[r] = "streaming"
    /\ Resumed(r, GenerateWord(frame[r]))

\* lines 110, 126 and the end of the except block: after an error chunk the
\* generator returns
StreamEnd(r) ==
    /\ pc[r] = "err_sent"
    /\ Resumed(r, GenerateAfterError(frame[r]))

\* the client goes away: the generator is closed where it is suspended
\* (GeneratorExit is no Exception, so line 133 does not catch it)
StreamDisconnect(r) ==
    /\ pc[r] \in {"start", "sql_sent", "err_sent", "streaming"}
    /\ Resumed(r, Step("done", <<>>, [frame[r] EXCEPT !.cancelled = TRUE], <<>>, FALSE))

Next ==
    \E r \in Requests :
        \/ Query(r)
        \/ Visualize(r)
        \/ Clean(r)
        \/ Html(r)
        \/ Stream(r)
        \/ StreamFirst(r)
        \/ StreamBody(r)
        \/ StreamWord(r)
        \/ StreamEnd(r)
        \/ StreamDisconnect(r)

Spec == Init /\ [][Next]_vars

----------------------------------------------------------------------------
(* Properties of the helper *)

\* C1: sanitization is idempotent: sanitizing the output of
\* _clean_sql_response again gives the same text, for every raw model text
SanitizeIdempotent == phase = "reclean" => out2 = out

\* a fenced, unterminated raw text has been sanitized twice
SanitizeIdempotentWitness ==
    /\ phase = "reclean"
    /\ StartsWith(backend.text, FenceSql)
    /\ EndsWith(backend.text, Fence)
    /\ ~EndsWith(backend.text, Semicolon)
    /\ out # backend.text

\* C2: the output of _clean_sql_response never contains a markdown fence
\* (three consecutive backquotes), whatever the raw model text
SanitizedHasNoFence == phase = "clean" => ~Contains(out, Fence)

\* C3: the output of _clean_sql_response ends with ';', contains no "--" and
\* has no whitespace other than single spaces between non-space characters
SanitizedIsNormalized ==
    phase = "clean" =>
        /\ EndsWith(out, Semicolon)
        /\ ~Contains(out, <<"-", "-">>)
        /\ \A i \in 1..Len(out) :
              IsSpace(out[i]) =>
                  /\ out[i] = " "
                  /\ i < Len(out) => ~IsSpace(out[i + 1])

\* a raw text with a line comment, a newline and no terminator was sanitized
SanitizedIsNormalizedWitness ==
    /\ phase = "clean"
    /\ Contains(backend.text, <<"-", "-">>)
    /\ Contains(backend.text, <<"\n">>)
    /\ ~EndsWith(backend.text, Semicolon)
    /\ Len(out) > 1

\* C4: generate_sql_query never raises; with the model unset, an empty text
\* or a raising backend it returns "Error generating SQL: " followed by the
\* failure reason, and otherwise the sanitized form of the backend's text
GenerateNeverRaises ==
    phase = "generated" =>
        /\ ~ret.raised
        /\ ~modelOk =>
              /\ IsErrorMarker(ret.value)
              /\ EndsWith(ret.value, ModelNotInitialized)
        /\ (modelOk /\ backend.kind = "raise") =>
              /\ IsErrorMarker(ret.value)
              /\ EndsWith(ret.value, backend.text)
        /\ (modelOk /\ backend.kind = "text" /\ backend.text = <<>>) =>
              /\ IsErrorMarker(ret.value)
              /\ EndsWith(ret.value, EmptyResponse)
        /\ (modelOk /\ backend.kind = "text" /\ backend.text # <<>>) =>
              ret.value = CleanSqlResponse(backend.text)

\* the backend raised and the caller got the marker
GenerateNeverRaisesWitness ==
    /\ phase = "generated"
    /\ backend.kind = "raise"
    /\ ret = Returned(GenErrorPrefix \o BackendBoom)

----------------------------------------------------------------------------
(* Properties of the requests *)

Finished(r) == pc[r] = "done"

\* the k-th call of request r is a call of op
IsCall(r, k, op) == log[r][k].op = op

\* the texts the generator / formatter returned to the handler of r
MarkerFrom(r, op) ==
    {log[r][k].value : k \in {j \in 1..Len(log[r]) : IsCall(r, j, op) /\ IsErrorMarker(log[r][j].value)}}

Called(r, op) == \E k \in 1..Len(log[r]) : IsCall(r, k, op)

\* C5: in /query a generator error marker ends the request with a 400 whose
\* detail is that marker, with neither executor nor formatter called; a
\* formatter error marker ends it with a 400 whose detail is that marker; in
\* neither case is the structured success body returned
QueryMarkerIs400 ==
    \A r \in Requests :
        (mode[r] = "query" /\ Finished(r)) =>
            /\ \A m \in MarkerFrom(r, "generate") :
                  /\ resp[r].status = 400
                  /\ resp[r].kind = "error"
                  /\ resp[r].text = m
                  /\ ~Called(r, "execute")
                  /\ ~Called(r, "format")
            /\ \A m \in MarkerFrom(r, "format") :
                  /\ resp[r].status = 400
                  /\ resp[r].kind = "error"
                  /\ resp[r].text = m

\* both cases have happened: one /query ended on a generator marker, the
\* other on a formatter marker
QueryMarkerIs400Witness ==
    /\ mode["r1"] = "query" /\ Finished("r1") /\ MarkerFrom("r1", "generate") # {}
    /\ mode["r2"] = "query" /\ Finished("r2") /\ MarkerFrom("r2", "format") # {}
    /\ resp["r2"].status = 400

\* the words of the token chunks of r, each without the space that follows it
EmittedWords(r) ==
    LET toks == SelectSeq(chunks[r], LAMBDA c : c.kind = "token")
    IN  [i \in 1..Len(toks) |-> SubSeq(toks[i].text, 1, Len(toks[i].text) - 1)]

\* the stream of r ran to its end with no error chunk and no disconnect
StreamSucceeded(r) ==
    /\ mode[r] = "stream"
    /\ Finished(r)
    /\ ~frame[r].cancelled
    /\ \A i \in 1..Len(chunks[r]) : chunks[r][i].kind # "error"

AllSessionsReleased == (\A r \in Requests : Finished(r)) => sessions = {}

\* the success outcome (DELIVERED) of a request, by mode: the handler left
\* through its success return, or the stream ran to its end without an error
Delivered(r) ==
    \/ mode[r] = "query" /\ resp[r].kind = "json"
    \/ mode[r] = "html" /\ resp[r].kind = "html"
    \/ mode[r] = "visualize" /\ resp[r].kind = "png"
    \/ mode[r] = "clean" /\ resp[r].kind = "text"
    \/ StreamSucceeded(r)

\* an error outcome of a request, by mode
ErrorOutcome(r) ==
    \/ mode[r] \in {"query", "visualize"} /\ resp[r].kind = "error"
    \/ mode[r] = "html" /\ resp[r].kind = "error_html"
    \/ mode[r] = "clean" /\ resp[r].kind = "error_text"
    \/ mode[r] = "stream" /\ \E i \in 1..Len(chunks[r]) : chunks[r][i].kind = "error"

FormatterAnswered(r) ==
    \E k \in 1..Len(log[r]) : IsCall(r, k, "format") /\ ~IsErrorMarker(log[r][k].value)

\* the executor runs only after the generator returned a non-error statement
ExecuteAfterGenerate(r) ==
    \A k \in 1..Len(log[r]) :
        IsCall(r, k, "execute") =>
            \E j \in 1..(k - 1) : IsCall(r, j, "generate") /\ ~IsErrorMarker(log[r][j].value)

\* the formatter runs only after the executor returned rows
FormatAfterExecute(r) ==
    \A k \in 1..Len(log[r]) :
        IsCall(r, k, "format") => \E j \in 1..(k - 1) : IsCall(r, j, "execute") /\ log[r][j].ok

\* success only after a non-error answer; a formatter marker ends in an error
FormatDecides(r) ==
    /\ Delivered(r) => FormatterAnswered(r)
    /\ (Finished(r) /\ MarkerFrom(r, "format") # {}) => (ErrorOutcome(r) /\ ~Delivered(r))

BackendFailures(r) ==
    {log[r][k].value : k \in {j \in 1..Len(log[r]) :
                                  log[r][j].op \in {"generate", "format"} /\ log[r][j].failed}}

\* C9: on a backend failure of the generator or the formatter, /query/clean
\* answers 200 with a text body beginning with "Error: ", and /query answers
\* 4xx with the error text as detail
ErrorSurfacingByMode ==
    \A r \in Requests :
        (Finished(r) /\ BackendFailures(r) # {}) =>
            /\ mode[r] = "clean" =>
                  /\ resp[r].status = 200
                  /\ StartsWith(resp[r].text, ErrorColon)
            /\ mode[r] = "query" =>
                  /\ resp[r].status \in 400..499
                  /\ resp[r].text \in BackendFailures(r)

\* the store-level faults of request r: the messages session.execute raised
StoreFaults(r) ==
    {log[r][k].value : k \in {j \in 1..Len(log[r]) : IsCall(r, j, "execute") /\ log[r][j].failed}}

RenderFailed(r) == \E k \in 1..Len(log[r]) : IsCall(r, k, "render") /\ log[r][k].failed

\* C11: every failure of /query/visualize (a generator error marker, a
\* store-level fault, a rendering fault) reaches the client as a 500 error
\* response; a store-level fault carries its message as detail; no request
\* to this endpoint ends with a 4xx status
VisualizeFailureIs500 ==
    \A r \in Requests :
        (mode[r] = "visualize" /\ Finished(r)) =>
            /\ resp[r].status \notin 400..499
            /\ (MarkerFrom(r, "generate") # {} \/ StoreFaults(r) # {} \/ RenderFailed(r)) =>
                  /\ resp[r].status = 500
                  /\ resp[r].kind = "error"
                  /\ resp[r].text # <<>>
            /\ \A m \in StoreFaults(r) : resp[r].text = m
            /\ resp[r].kind = "png" => resp[r].status = 200

\* the three failures have happened: a generator marker for one request, a
\* rendering fault for the other
VisualizeFailureIs500Witness ==
    /\ mode["r1"] = "visualize" /\ Finished("r1") /\ MarkerFrom("r1", "generate") # {}
    /\ resp["r1"].status = 500
    /\ mode["r2"] = "visualize" /\ Finished("r2") /\ RenderFailed("r2")
    /\ resp["r2"].status = 500

\* C12: in /query a store-level fault is not swallowed by the executor step:
\* the session is closed, the fault reaches the handler boundary and becomes,
\* once, a 500 whose detail is the fault's message; the formatter is not
\* called for that request; and the 400 raised for an error marker stays a 400
QueryStoreFaultIs500 ==
    \A r \in Requests :
        (mode[r] = "query" /\ Finished(r)) =>
            /\ \A m \in StoreFaults(r) :
                  /\ resp[r].status = 500
                  /\ resp[r].kind = "error"
                  /\ resp[r].text = m
                  /\ ~Called(r, "format")
                  /\ IsCall(r, Len(log[r]), "close")
            /\ (MarkerFrom(r, "generate") # {} \/ MarkerFrom(r, "format") # {}) =>
                  resp[r].status = 400

\* a /query met a store fault while another /query ended on an error marker
QueryStoreFaultIs500Witness ==
    /\ mode["r1"] = "query" /\ Finished("r1") /\ StoreFaults("r1") = {NoSuchTable}
    /\ resp["r1"].status = 500
    /\ mode["r2"] = "query" /\ Finished("r2") /\ MarkerFrom("r2", "format") # {}
    /\ resp["r2"].status = 400

\* the positions of the chunks of kind k that request r has emitted
ChunksOfKind(r, k) == {i \in 1..Len(chunks[r]) : chunks[r][i].kind = k}

\* C13: in /query/stream every failure is delivered as inline text starting
\* with "Error: " under the 200 status of the stream, and it is terminal: no
\* chunk follows an error chunk; the "Generated SQL" line is emitted only if
\* generation succeeded; and no answer token is emitted when the executor
\* faulted or the formatter returned an error marker
StreamErrorIsTerminal ==
    \A r \in Requests :
        mode[r] = "stream" =>
            /\ resp[r].status = 200
            /\ \A i \in ChunksOfKind(r, "error") :
                  /\ StartsWith(chunks[r][i].text, ErrorColon)
                  /\ i = Len(chunks[r])
            /\ (MarkerFrom(r, "generate") # {} \/ StoreFaults(r) # {}
                   \/ MarkerFrom(r, "format") # {}) =>
                  ChunksOfKind(r, "error") # {}
            /\ \A m \in MarkerFrom(r, "generate") \cup StoreFaults(r) \cup MarkerFrom(r, "format") :
                  \A i \in ChunksOfKind(r, "error") :
                      chunks[r][i].text = ErrorColon \o m \o Newline
            /\ ChunksOfKind(r, "sql") # {} =>
                  \E k \in 1..Len(log[r]) :
                      IsCall(r, k, "generate") /\ ~IsErrorMarker(log[r][k].value)
            /\ MarkerFrom(r, "generate") # {} => ChunksOfKind(r, "sql") = {}
            /\ (StoreFaults(r) # {} \/ MarkerFrom(r, "format") # {}) =>
                  ChunksOfKind(r, "token") = {}

\* one stream ended after the error chunk of a formatter marker, the other
\* after the error chunk of a store fault
StreamErrorIsTerminalWitness ==
    /\ mode["r1"] = "stream" /\ Finished("r1") /\ ~frame["r1"].cancelled
    /\ MarkerFrom("r1", "format") # {} /\ Len(chunks["r1"]) = 2
    /\ mode["r2"] = "stream" /\ Finished("r2") /\ ~frame["r2"].cancelled
    /\ StoreFaults("r2") # {} /\ Len(chunks["r2"]) = 2

\* how many calls of op request r has made
CallCount(r, op) == Cardinality({k \in 1..Len(log[r]) : IsCall(r, k, op)})

\* C14: wherever the stream generator is suspended after a chunk (the SQL
\* line, an error line, a token), and after it has ended or been closed by a
\* client disconnect, its request holds no open store session: every session
\* it opened was closed before the next yield, for every interleaving of the
\* concurrent requests
StreamHoldsNoSession ==
    \A r \in Requests :
        mode[r] = "stream" =>
            /\ r \notin sessions
            /\ CallCount(r, "open") = CallCount(r, "close")
            /\ Len(log[r]) > 0 => ~IsCall(r, Len(log[r]), "open")
            /\ Len(log[r]) > 0 => ~IsCall(r, Len(log[r]), "execute")

\* two streams interleaved: one was disconnected while suspended after a
\* token, the other is suspended after the error line of a store fault
StreamHoldsNoSessionWitness ==
    /\ mode["r1"] = "stream" /\ Finished("r1") /\ frame["r1"].cancelled
    /\ ChunksOfKind("r1", "token") # {} /\ frame["r1"].todo # <<>>
    /\ mode["r2"] = "stream" /\ pc["r2"] = "err_sent" /\ StoreFaults("r2") # {}

----------------------------------------------------------------------------
(* Properties of chart selection *)

\* C10: with no chart_type hint (absent or empty) the chosen type is line if
\* a date column exists and there are more than 3 rows, otherwise bar if
\* there are at most 10 rows, otherwise histogram; a given hint is used as is
ChartTypeSelected ==
    chartOut \notin {"pending", "idle"} =>
        IF chartIn.hint \in {NoHint, ""}
        THEN /\ (chartIn.df.date /\ chartIn.df.n > 3) => chartOut = "line"
             /\ (~(chartIn.df.date /\ chartIn.df.n > 3) /\ chartIn.df.n <= 10) =>
                   chartOut = "bar"
             /\ (~(chartIn.df.date /\ chartIn.df.n > 3) /\ chartIn.df.n > 10) =>
                   chartOut = "histogram"
        ELSE chartOut = chartIn.hint

\* a frame of exactly 3 dated rows, with no hint, got its type
ChartTypeSelectedWitness ==
    /\ chartOut = "bar"
    /\ chartIn.hint = NoHint
    /\ chartIn.df = [n |-> 3, date |-> TRUE]

====
